---- MODULE Spec2Model ----
(***************************************************************************)
(* Photobooth: the Event/Photo tables (events/models.py), the request      *)
(* handlers (events/views.py) and the validator and blob-store adapter     *)
(* (events/utils.py).                                                      *)
(*                                                                         *)
(* Spec: one action per view.  A step handles one request from start to    *)
(* finish and leaves the request and its response in `last`; Deliver sends *)
(* the response and the next request is taken up.  SpecConc: two workers   *)
(* answer requests at the same time, one step per statement that reaches   *)
(* the database or the bucket.  The blob store is the set of keys it       *)
(* holds; a call to it may succeed, fail with botocore's ClientError, or   *)
(* fail with any other exception; in SpecConc such a failure may also come *)
(* after the bucket did the work (the answer never arrived).               *)
(*                                                                         *)
(* Values of uuid.uuid4() that become a guest_code or an owner_secret are  *)
(* drawn from samples and may repeat.  Primary keys and the uuid in a      *)
(* blob key are taken to be fresh: they are numbered by counters.          *)
(***************************************************************************)
EXTENDS Integers, Sequences, FiniteSets, TLC

VARIABLES
    events,       \* table Event: sequence of rows, the row's index is its id
    photos,       \* table Photo: set of rows
    blobs,        \* keys of the objects the bucket holds
    nextPhotoId,  \* number of the next fresh uuid (Photo key, blob key)
    last,         \* the request being answered and the response to it
    vfile,        \* SpecValidate: the file handed to validate_image_file
    vresult,      \* SpecValidate: what validate_image_file returned for it
    workers       \* SpecConc: each server worker's request and where it is in it

vars == <<events, photos, blobs, nextPhotoId, last, vfile, vresult, workers>>

dbvars == <<events, photos, blobs, nextPhotoId>>

-----------------------------------------------------------------------------
(* Bounds of the model *)

\* Photo rows ever created
MaxPhotos == 2

\* SpecConc: uploads that ever reach the bucket
MaxUploads == 1

-----------------------------------------------------------------------------
(* uuid.uuid4(), str(uuid) and uuid.hex *)

\* number of hex digits of a UUID (owner_secret's max_length)
HexLen == 32
\* str(uuid.uuid4())[:12]
GuestCodeLen == 12

Hyphen == -1

\* A version-4 UUID as its 32 hex digits: all 0 but digit k, the version
\* nibble 4 and the variant nibble 8.
Uuid(k) ==
    [i \in 1..HexLen |->
        IF i = 13 THEN 4 ELSE IF i = 17 THEN 8 ELSE IF i = k THEN 1 ELSE 0]

\* The uuid4 values a creation may draw for the guest_code: Uuid(20) and
\* Uuid(21) differ only after the 12th character of their text, Uuid(1)
\* differs in the first.
GuestUuids == {Uuid(1), Uuid(20), Uuid(21)}

\* The uuid4 values a creation may draw for the owner_secret.
OwnerUuids == {Uuid(1), Uuid(20)}

\* str(u): 8-4-4-4-12 hex digits separated by hyphens
UuidStr(u) ==
    SubSeq(u, 1, 8) \o <<Hyphen>> \o SubSeq(u, 9, 12) \o <<Hyphen>>
        \o SubSeq(u, 13, 16) \o <<Hyphen>> \o SubSeq(u, 17, 20) \o <<Hyphen>>
        \o SubSeq(u, 21, 32)

\* u.hex
UuidHex(u) == u

\* s[:n]
Prefix(s, n) == SubSeq(s, 1, IF Len(s) < n THEN Len(s) ELSE n)

NewGuestCode(u) == Prefix(UuidStr(u), GuestCodeLen)

NewOwnerSecret(u) == UuidHex(u)

-----------------------------------------------------------------------------
(* events/utils.py: the validator *)

\* settings.MAX_UPLOAD_SIZE is not set in the sources: the fallback, 10 MB
max_size == 10 * 1024 * 1024

allowed_types == {"image/jpeg", "image/png", "image/jpg"}

JpegMagic == <<255, 216, 255>>

PngMagic == <<137, 80, 78, 71, 13, 10, 26, 10>>

None == <<>>

\* f"File size exceeds {max_size / (1024 * 1024)} MB"
TooLargeMessage == <<"File size exceeds", max_size \div (1024 * 1024), "MB">>

\* file.read(12), followed by file.seek(0)
ReadHeader(file) == Prefix(file.content, 12)

\* Mutant: the allow-list is consulted before the size.
validate_image_file_TypeFirst(file) ==
    IF file.content_type \in allowed_types
    THEN <<TRUE, None>>
    ELSE IF file.size > max_size
    THEN <<FALSE, TooLargeMessage>>
    ELSE IF Prefix(ReadHeader(file), 3) = JpegMagic
            \/ Prefix(ReadHeader(file), 8) = PngMagic
    THEN <<TRUE, None>>
    ELSE <<FALSE, <<"Invalid file type">>>>

\* returns <<is_valid, error>>
validate_image_file(file) ==
    IF file.size > max_size
    THEN <<FALSE, TooLargeMessage>>
    ELSE IF file.content_type \notin allowed_types
    THEN LET header == ReadHeader(file)
         IN  IF Prefix(header, 3) = JpegMagic
             THEN <<TRUE, None>>
             ELSE IF Prefix(header, 8) = PngMagic
             THEN <<TRUE, None>>
             ELSE <<FALSE, <<"Invalid file type">>>>
    ELSE <<TRUE, None>>

-----------------------------------------------------------------------------
(* events/utils.py: the blob-store adapter *)

\* How one call to the bucket ends when a failed call leaves the bucket as
\* it was: it succeeds; the bucket refuses it and botocore raises
\* ClientError; or anything else is raised before the request reached the
\* bucket ("Exception": BotoCoreError, OSError, ...).
S3Outcomes == {"ok", "ClientError", "Exception"}

\* The same with the failure a network call also has: the bucket did the
\* work and its answer was lost ("Timeout": botocore's ReadTimeoutError or
\* ConnectionClosedError, which are no ClientError either).
StoreOutcomes == S3Outcomes \cup {"Timeout"}

\* The call changed the bucket.
TookEffect(outcome) == outcome \in {"ok", "Timeout"}

\* file.name.split(".")[-1]; a name is the sequence of its dot-separated parts
FileExtension(name) == name[Len(name)]

\* f"events/{event_id}/{uuid.uuid4()}.{file_extension}"
S3Key(event_id, keyId, ext) == <<"events", event_id, keyId, ext>>

\* f"https://{bucket}.s3.{region}.amazonaws.com/{s3_key}"
S3Url(s3_key) == <<"https", s3_key>>

\* Mutant: ClientError is logged instead of raised, and the URL is built
\* all the same.
upload_photo_to_s3_Swallow(file, event_id, keyId, outcome) ==
    LET s3_key == S3Key(event_id, keyId, FileExtension(file.name))
    IN  IF outcome \in {"ok", "ClientError"}
        THEN [raised |-> FALSE, s3_key |-> s3_key, s3_url |-> S3Url(s3_key),
              error |-> None]
        ELSE [raised |-> TRUE, s3_key |-> s3_key, s3_url |-> None,
              error |-> <<outcome>>]

\* What upload_photo_to_s3 hands back: the dict, or the exception it raises.
upload_photo_to_s3(file, event_id, keyId, outcome) ==
    LET s3_key == S3Key(event_id, keyId, FileExtension(file.name))
    IN  CASE outcome = "ok" ->
                [raised |-> FALSE, s3_key |-> s3_key, s3_url |-> S3Url(s3_key),
                 error |-> None]
          [] outcome = "ClientError" ->
                [raised |-> TRUE, s3_key |-> s3_key, s3_url |-> None,
                 error |-> <<"S3 upload failed">>]
          [] OTHER ->
                [raised |-> TRUE, s3_key |-> s3_key, s3_url |-> None,
                 error |-> <<outcome>>]

\* The bucket after upload_fileobj under s3_key ended with `outcome`.
BlobsAfterPut(bs, s3_key, outcome) ==
    IF TookEffect(outcome) THEN bs \cup {s3_key} ELSE bs

\* delete_photo_from_s3 raises exactly what is not a ClientError.
DeleteRaises(outcome) == outcome \notin {"ok", "ClientError"}

\* The bucket after delete_object of s3_key ended with `outcome`.
BlobsAfterDelete(bs, s3_key, outcome) ==
    IF TookEffect(outcome) THEN bs \ {s3_key} ELSE bs

-----------------------------------------------------------------------------
(* events/models.py: the tables *)

\* Mutant: unique=True is missing on guest_code.
UniqueViolation_SecretOnly(rows, row) ==
    \E i \in DOMAIN rows : rows[i].owner_secret = row.owner_secret

\* CharField(unique=True) on guest_code and on owner_secret: the INSERT of
\* `row` raises IntegrityError when a stored row holds either value.
UniqueViolation(rows, row) ==
    \E i \in DOMAIN rows :
        \/ rows[i].guest_code = row.guest_code
        \/ rows[i].owner_secret = row.owner_secret

RECURSIVE LStrip(_)
LStrip(s) == IF s # <<>> /\ Head(s) = " " THEN LStrip(Tail(s)) ELSE s

RECURSIVE RStrip(_)
RStrip(s) ==
    IF s # <<>> /\ s[Len(s)] = " " THEN RStrip(SubSeq(s, 1, Len(s) - 1)) ELSE s

\* str.strip()
Strip(s) == LStrip(RStrip(s))

\* Event.save() of a new Event: guest_code and owner_secret are empty, so
\* both are generated; uploads_enabled takes its default.  (expires_at,
\* is_active, owner_email and created_at are read by no handler.)
NewEvent(name, g, o) ==
    [guest_code |-> NewGuestCode(g), owner_secret |-> NewOwnerSecret(o),
     name |-> name, uploads_enabled |-> TRUE]

\* Event.objects.filter(guest_code=code): ids of the matching rows
EventsByGuestCode(code) == {i \in DOMAIN events : events[i].guest_code = code}

\* Mutant: one lookup for both credentials.
EventsByOwnerSecret_EitherCode(code) ==
    {i \in DOMAIN events :
        events[i].owner_secret = code \/ events[i].guest_code = code}

\* Event.objects.filter(owner_secret=code)
EventsByOwnerSecret(code) ==
    {i \in DOMAIN events : events[i].owner_secret = code}

\* event.photos.all() / Photo.objects.filter(event=event)
PhotosOf(ev) == {p \in photos : p.event = ev}

RECURSIVE NewestFirst(_)
\* Meta.ordering = ['-uploaded_at']: rows are created in the order of their ids
NewestFirst(ps) ==
    IF ps = {} THEN <<>>
    ELSE LET p == CHOOSE x \in ps : \A y \in ps : y.id <= x.id
         IN  <<p>> \o NewestFirst(ps \ {p})

\* [x for x in seq]
Range(seq) == {seq[i] : i \in DOMAIN seq}

-----------------------------------------------------------------------------
(* Requests *)

Verbs == {"GET", "POST", "DELETE"}

\* Mutant: only GET is turned away.
require_POST_NotGet(verb) == verb # "GET"

\* @require_POST
require_POST(verb) == verb = "POST"

BogusCode == <<15, 15>>

\* What a request may carry as <guest_code> or <owner_secret>: every value a
\* creation can generate, and one that none generates.
Codes ==
    {NewGuestCode(u) : u \in GuestUuids}
        \cup {NewOwnerSecret(u) : u \in OwnerUuids} \cup {BogusCode}

\* event_name form values: missing or empty, blank, a name with padding
EventNames == {<<>>, <<" ">>, <<" ", "P">>}

NoFile == [name |-> <<>>, size |-> 0, content_type |-> "", content |-> <<>>]

PngSample == PngMagic \o <<0, 0, 0, 13, 73, 72>>

\* request.FILES['photo'] of the upload requests
Files ==
    { NoFile,
      [name |-> <<"shot", "jpg">>, size |-> 3, content_type |-> "image/jpeg",
       content |-> JpegMagic],
      [name |-> <<"bad", "exe">>, size |-> 4,
       content_type |-> "application/octet-stream", content |-> <<100, 97, 116, 97>>],
      [name |-> <<"big", "png">>, size |-> max_size + 1,
       content_type |-> "image/png", content |-> PngSample] }

\* <uuid:photo_id> of a path, and the ids of a photo_ids list: the keys of
\* the rows that can exist and one more
PhotoIds == 1..(MaxPhotos + 1)

\* photo_ids lists: empty, one id, two ids (the same id twice among them);
\* the code reads a list through id__in alone, so the order is left ascending
IdLists ==
    {<<>>} \cup {<<a>> : a \in PhotoIds}
        \cup {<<pr[1], pr[2]>> : pr \in {q \in PhotoIds \X PhotoIds : q[1] <= q[2]}}

\* request.body of the JSON endpoints: bytes that are not UTF-8, text that is
\* not JSON, a JSON value that is no object (a list, a number, null), and
\* objects without or with "photo_ids"
Bodies ==
    { [kind |-> k, has_ids |-> FALSE, photo_ids |-> <<>>] :
          k \in {"bad_utf8", "bad_json", "non_object", "object"} }
        \cup { [kind |-> "object", has_ids |-> TRUE, photo_ids |-> ids] :
                  ids \in IdLists }

\* body = json.loads(request.body); photo_ids = body.get('photo_ids', []):
\* the exception raised ("" for none) and photo_ids.  json.loads decodes the
\* bytes first (UnicodeDecodeError), then parses (JSONDecodeError); .get is
\* an attribute of dict alone (AttributeError).
ParsePhotoIds(body) ==
    CASE body.kind = "bad_utf8" -> [exc |-> "UnicodeDecodeError", photo_ids |-> <<>>]
      [] body.kind = "bad_json" -> [exc |-> "JSONDecodeError", photo_ids |-> <<>>]
      [] body.kind = "non_object" -> [exc |-> "AttributeError", photo_ids |-> <<>>]
      [] OTHER ->
            [exc |-> "", photo_ids |-> IF body.has_ids THEN body.photo_ids ELSE <<>>]

\* except (json.JSONDecodeError, AttributeError)
CaughtBodyError(exc) == exc \in {"JSONDecodeError", "AttributeError"}

NoToggle == [event |-> 0, before |-> FALSE]

NoRequest ==
    [op |-> "none", verb |-> "GET", code |-> BogusCode, arg |-> None, event |-> 0,
     before |-> FALSE, status |-> 0, body |-> None, calls |-> <<>>,
     prev |-> NoToggle]

\* The worker is idle: no request is being answered.
Idle == last = NoRequest

\* The last response answered a toggle: the next toggle may follow it
\* directly, with no other request in between.
JustToggled == last.op = "toggle_uploads" /\ last.status = 200

\* The request handled and the response sent: `arg` is what the request
\* carries besides the path (None when the view answered before looking at
\* anything but the verb and the code), `event` the
\* id of the Event the code resolved to (0: none), `before` the
\* uploads_enabled read from it, `calls` the calls made to the bucket, each
\* <<operation, key, outcome>>, `prev` the toggle answered immediately before
\* this request (its event and the uploads_enabled it read), if there was one.
Handled(op, verb, code, arg, ev, status, body, calls) ==
    last' = [op |-> op, verb |-> verb, code |-> code, arg |-> arg, event |-> ev,
             before |-> IF ev = 0 THEN FALSE ELSE events[ev].uploads_enabled,
             status |-> status, body |-> body, calls |-> calls,
             prev |-> IF JustToggled
                      THEN [event |-> last.event, before |-> last.before]
                      ELSE NoToggle]

\* The server's workers (threads or processes), each answering one request
\* at a time
Workers == {"w1", "w2"}

\* A worker with no request.  With a request: `pc` is the statement it is
\* at, `op` the view, `event` the id of the Event it resolved (0: none),
\* `read` the uploads_enabled of the Event instance it loaded, `file` the
\* uploaded file, `uuid` the number of the fresh uuids of its Photo,
\* `s3_data` what upload_photo_to_s3 returned, `photo` the Photo instance it
\* loaded, `status` and `body` its response, `stored` the uploads_enabled in
\* the table when it created its Photo.
NoWork ==
    [pc |-> "idle", op |-> "none", event |-> 0, read |-> FALSE, file |-> NoFile,
     uuid |-> 0, s3_data |-> None, photo |-> None, status |-> 0, body |-> None,
     stored |-> FALSE]

\* return JsonResponse(body, status=status) / raise Http404
Answered(wk, status, body) ==
    [wk EXCEPT !.pc = "done", !.status = status, !.body = body]

\* get_object_or_404: the id of the only match, 0 when there is none
TheOnly(ids) == IF ids = {} THEN 0 ELSE CHOOSE i \in ids : TRUE

-----------------------------------------------------------------------------
(* events/views.py: the handlers *)

\* POST /create/
create_event(verb, event_name, g, o) ==
    LET name == Strip(event_name)
        row == NewEvent(name, g, o)
        id == Len(events) + 1
        req == event_name
    IN  /\ UNCHANGED <<photos, blobs, nextPhotoId, vfile, vresult, workers>>
        /\ IF ~require_POST(verb)
           THEN /\ events' = events
                /\ Handled("create_event", verb, None, None, 0, 405, None, <<>>)
           ELSE IF name = <<>>
           THEN /\ events' = events
                /\ Handled("create_event", verb, None, req, 0, 400,
                           [error |-> "Event name is required"], <<>>)
           ELSE IF UniqueViolation(events, row)
           THEN \* IntegrityError out of Event.objects.create: nothing catches it
                /\ events' = events
                /\ Handled("create_event", verb, None, req, 0, 500, None, <<>>)
           ELSE /\ events' = Append(events, row)
                /\ Handled("create_event", verb, None, req, 0, 200,
                           [success |-> TRUE,
                            guest_url |-> <<"guest_gallery", row.guest_code>>,
                            owner_url |-> <<"owner_dashboard", row.owner_secret>>,
                            qr_code |-> <<"qr", <<"guest_gallery", row.guest_code>>>>,
                            event_name |-> row.name,
                            guest_code |-> row.guest_code,
                            id |-> id], <<>>)

\* GET /event/<guest_code>/
guest_gallery(verb, guest_code) ==
    LET ev == TheOnly(EventsByGuestCode(guest_code))
    IN  /\ UNCHANGED <<dbvars, vfile, vresult, workers>>
        /\ IF ev = 0
           THEN Handled("guest_gallery", verb, guest_code, None, 0, 404, None, <<>>)
           ELSE Handled("guest_gallery", verb, guest_code, None, ev, 200,
                        [event |-> ev], <<>>)

\* GET /owner/<owner_secret>/
owner_dashboard(verb, owner_secret) ==
    LET ev == TheOnly(EventsByOwnerSecret(owner_secret))
        ps == NewestFirst(PhotosOf(ev))
    IN  /\ UNCHANGED <<dbvars, vfile, vresult, workers>>
        /\ IF ev = 0
           THEN Handled("owner_dashboard", verb, owner_secret, None, 0, 404, None, <<>>)
           ELSE Handled("owner_dashboard", verb, owner_secret, None, ev, 200,
                        [event |-> ev, photos |-> [i \in DOMAIN ps |-> ps[i].id],
                         photo_count |-> Len(ps)], <<>>)

\* How requests.get(photo.s3_url, timeout=10) ends
FetchOutcomes == {"200", "404", "exception"}

\* photo.s3_url.split("/")[-1]
ZipName(p) == <<p.s3_key[3], p.s3_key[4]>>

\* POST /owner/<owner_secret>/download/
download_photos_zip(verb, owner_secret, body, fetch) ==
    LET ev == TheOnly(EventsByOwnerSecret(owner_secret))
        parsed == ParsePhotoIds(body)
        photo_ids == IF parsed.exc = "" THEN parsed.photo_ids ELSE <<>>
        chosen == IF photo_ids # <<>>
                  THEN {p \in PhotosOf(ev) : p.id \in Range(photo_ids)}
                  ELSE PhotosOf(ev)
        \* a fetch answers 200 only for an object the bucket holds
        got == {p \in chosen : fetch[p.id] = "200" /\ p.s3_key \in blobs}
    IN  /\ UNCHANGED <<dbvars, vfile, vresult, workers>>
        /\ IF ~require_POST(verb)
           THEN Handled("download_photos_zip", verb, owner_secret, None, 0, 405, None, <<>>)
           ELSE IF ev = 0
           THEN Handled("download_photos_zip", verb, owner_secret, None, 0, 404, None, <<>>)
           ELSE IF parsed.exc # "" /\ ~CaughtBodyError(parsed.exc)
           THEN Handled("download_photos_zip", verb, owner_secret, body, ev, 500, None, <<>>)
           ELSE Handled("download_photos_zip", verb, owner_secret, body, ev, 200,
                        [zip |-> {ZipName(p) : p \in got}], <<>>)

\* Mutant: the flag is read after the file has been looked at, so an upload
\* with a file attached passes.
UploadsDisabled_Unchecked(event) == FALSE

\* if not event.uploads_enabled
UploadsDisabled(event) == ~event.uploads_enabled

\* s3_data = upload_photo_to_s3(...) did not raise and holds a URL
PutReturned(s3_data) == ~s3_data.raised /\ s3_data.s3_url # None

\* POST /event/<guest_code>/upload/
upload_photo(verb, guest_code, file, outcome) ==
    LET ev == TheOnly(EventsByGuestCode(guest_code))
        valid == validate_image_file(file)
        s3_data == upload_photo_to_s3(file, ev, nextPhotoId, outcome)
        put == <<"put", s3_data.s3_key, outcome>>
        photo == [id |-> nextPhotoId, event |-> ev, s3_key |-> s3_data.s3_key,
                  s3_url |-> s3_data.s3_url, original_filename |-> file.name]
    IN  /\ UNCHANGED <<events, vfile, vresult, workers>>
        /\ IF ~require_POST(verb)
           THEN /\ UNCHANGED <<photos, blobs, nextPhotoId>>
                /\ Handled("upload_photo", verb, guest_code, None, 0, 405, None, <<>>)
           ELSE IF ev = 0
           THEN /\ UNCHANGED <<photos, blobs, nextPhotoId>>
                /\ Handled("upload_photo", verb, guest_code, None, 0, 404, None, <<>>)
           ELSE IF UploadsDisabled(events[ev])
           THEN /\ UNCHANGED <<photos, blobs, nextPhotoId>>
                /\ Handled("upload_photo", verb, guest_code, file, ev, 403,
                           [error |-> <<"Uploads disabled">>], <<>>)
           ELSE IF file.name = <<>>
           THEN /\ UNCHANGED <<photos, blobs, nextPhotoId>>
                /\ Handled("upload_photo", verb, guest_code, file, ev, 400,
                           [error |-> <<"No photo provided">>], <<>>)
           ELSE IF ~valid[1]
           THEN /\ UNCHANGED <<photos, blobs, nextPhotoId>>
                /\ Handled("upload_photo", verb, guest_code, file, ev, 400,
                           [error |-> valid[2]], <<>>)
           ELSE /\ blobs' = BlobsAfterPut(blobs, s3_data.s3_key, outcome)
                /\ IF s3_data.raised
                   THEN /\ UNCHANGED <<photos, nextPhotoId>>
                        /\ Handled("upload_photo", verb, guest_code, file, ev, 500,
                                   [error |-> s3_data.error], <<put>>)
                   ELSE IF ~PutReturned(s3_data)
                   THEN /\ UNCHANGED <<photos, nextPhotoId>>
                        /\ Handled("upload_photo", verb, guest_code, file, ev, 500,
                                   [error |-> <<"S3 upload returned no URL">>], <<put>>)
                   ELSE /\ nextPhotoId <= MaxPhotos
                        /\ photos' = photos \cup {photo}
                        /\ nextPhotoId' = nextPhotoId + 1
                        /\ Handled("upload_photo", verb, guest_code, file, ev, 200,
                                   [success |-> TRUE, photo_id |-> photo.id,
                                    photo_url |-> photo.s3_url], <<put>>)

\* Photo.objects.filter(id=photo_id, event=event)
PhotosByIdInEvent(photo_id, ev) == {p \in photos : p.id = photo_id /\ p.event = ev}

\* POST /owner/<owner_secret>/photo/<photo_id>/delete/
delete_photo(verb, owner_secret, photo_id, outcome) ==
    LET ev == TheOnly(EventsByOwnerSecret(owner_secret))
        found == PhotosByIdInEvent(photo_id, ev)
        photo == CHOOSE p \in found : TRUE
        del == <<"delete", photo.s3_key, outcome>>
    IN  /\ UNCHANGED <<events, nextPhotoId, vfile, vresult, workers>>
        /\ IF ~require_POST(verb)
           THEN /\ UNCHANGED <<photos, blobs>>
                /\ Handled("delete_photo", verb, owner_secret, None, 0, 405, None, <<>>)
           ELSE IF ev = 0
           THEN /\ UNCHANGED <<photos, blobs>>
                /\ Handled("delete_photo", verb, owner_secret, None, 0, 404, None, <<>>)
           ELSE IF found = {}
           THEN /\ UNCHANGED <<photos, blobs>>
                /\ Handled("delete_photo", verb, owner_secret, photo_id, ev, 404, None, <<>>)
           ELSE /\ blobs' = BlobsAfterDelete(blobs, photo.s3_key, outcome)
                /\ IF DeleteRaises(outcome)
                   THEN /\ UNCHANGED photos
                        /\ Handled("delete_photo", verb, owner_secret, photo_id, ev, 500,
                                   [error |-> <<outcome>>], <<del>>)
                   ELSE /\ photos' = photos \ {photo}
                        /\ Handled("delete_photo", verb, owner_secret, photo_id, ev, 200,
                                   [success |-> TRUE], <<del>>)

\* Mutant: the filter leaves out event=event.
PhotosByIdsInEvent_AnyEvent(photo_ids, ev) ==
    {p \in photos : p.id \in Range(photo_ids)}

\* Photo.objects.filter(id__in=photo_ids, event=event)
PhotosByIdsInEvent(photo_ids, ev) ==
    {p \in photos : p.id \in Range(photo_ids) /\ p.event = ev}

\* One pass of the loop of bulk_delete_photos: delete_photo_from_s3, then
\* photo.delete() and the count, unless the former raised.
BulkDeleteOne(photo, outcome, st) ==
    [photos |-> IF DeleteRaises(outcome) THEN st.photos ELSE st.photos \ {photo},
     blobs |-> BlobsAfterDelete(st.blobs, photo.s3_key, outcome),
     deleted |-> IF DeleteRaises(outcome) THEN st.deleted ELSE st.deleted + 1,
     calls |-> Append(st.calls, <<"delete", photo.s3_key, outcome>>)]

RECURSIVE BulkDeleteLoop(_, _, _)
\* for photo in photos: ...
BulkDeleteLoop(ps, outcomes, st) ==
    IF ps = <<>> THEN st
    ELSE BulkDeleteLoop(Tail(ps), outcomes,
                        BulkDeleteOne(Head(ps), outcomes[Head(ps).id], st))

\* POST /owner/<owner_secret>/photos/bulk-delete/
bulk_delete_photos(verb, owner_secret, body, outcomes) ==
    LET ev == TheOnly(EventsByOwnerSecret(owner_secret))
        parsed == ParsePhotoIds(body)
        chosen == NewestFirst(PhotosByIdsInEvent(parsed.photo_ids, ev))
        st == BulkDeleteLoop(chosen, outcomes,
                             [photos |-> photos, blobs |-> blobs, deleted |-> 0,
                              calls |-> <<>>])
    IN  /\ UNCHANGED <<events, nextPhotoId, vfile, vresult, workers>>
        /\ IF ~require_POST(verb)
           THEN /\ UNCHANGED <<photos, blobs>>
                /\ Handled("bulk_delete_photos", verb, owner_secret, None, 0, 405, None, <<>>)
           ELSE IF ev = 0
           THEN /\ UNCHANGED <<photos, blobs>>
                /\ Handled("bulk_delete_photos", verb, owner_secret, None, 0, 404, None, <<>>)
           ELSE IF parsed.exc # "" /\ CaughtBodyError(parsed.exc)
           THEN /\ UNCHANGED <<photos, blobs>>
                /\ Handled("bulk_delete_photos", verb, owner_secret, body, ev, 400,
                           [error |-> <<"Invalid request body">>], <<>>)
           ELSE IF parsed.exc # ""
           THEN \* the exception leaves the view
                /\ UNCHANGED <<photos, blobs>>
                /\ Handled("bulk_delete_photos", verb, owner_secret, body, ev, 500, None, <<>>)
           ELSE IF parsed.photo_ids = <<>>
           THEN /\ UNCHANGED <<photos, blobs>>
                /\ Handled("bulk_delete_photos", verb, owner_secret, body, ev, 400,
                           [error |-> <<"No photo IDs provided">>], <<>>)
           ELSE /\ photos' = st.photos
                /\ blobs' = st.blobs
                /\ Handled("bulk_delete_photos", verb, owner_secret, body, ev, 200,
                           [success |-> TRUE, deleted |-> st.deleted], st.calls)

\* Mutant: the toggle only ever disables.
Toggled_Off(event) == [event EXCEPT !.uploads_enabled = FALSE]

\* event.uploads_enabled = not event.uploads_enabled
Toggled(event) == [event EXCEPT !.uploads_enabled = ~event.uploads_enabled]

\* POST /owner/<owner_secret>/toggle-uploads/
toggle_uploads(verb, owner_secret) ==
    LET ev == TheOnly(EventsByOwnerSecret(owner_secret))
    IN  /\ UNCHANGED <<photos, blobs, nextPhotoId, vfile, vresult, workers>>
        /\ IF ~require_POST(verb)
           THEN /\ events' = events
                /\ Handled("toggle_uploads", verb, owner_secret, None, 0, 405, None, <<>>)
           ELSE IF ev = 0
           THEN /\ events' = events
                /\ Handled("toggle_uploads", verb, owner_secret, None, 0, 404, None, <<>>)
           ELSE /\ events' = [events EXCEPT ![ev] = Toggled(events[ev])]
                /\ Handled("toggle_uploads", verb, owner_secret, None, ev, 200,
                           [success |-> TRUE,
                            uploads_enabled |-> Toggled(events[ev]).uploads_enabled],
                           <<>>)

-----------------------------------------------------------------------------
(* The application: empty tables, an empty bucket, requests in any order *)

Init ==
    /\ events = <<>>
    /\ photos = {}
    /\ blobs = {}
    /\ nextPhotoId = 1
    /\ last = NoRequest
    /\ vfile = NoFile
    /\ vresult = None
    /\ workers = [w \in Workers |-> NoWork]

\* The answers of the bucket to the calls a request makes about the rows ps
CallOutcomes(ps, S) == [{p.id : p \in ps} -> S]

\* The rows a POST with this owner_secret and body goes through
Targets(verb, code, body, all) ==
    LET ev == TheOnly(EventsByOwnerSecret(code))
        ids == ParsePhotoIds(body).photo_ids
    IN  IF ~require_POST(verb) \/ ev = 0 THEN {}
        ELSE IF ids = <<>> /\ all THEN PhotosOf(ev)
        ELSE PhotosByIdsInEvent(ids, ev)

CreateEvent ==
    /\ Idle
    /\ \E verb \in Verbs, event_name \in EventNames, g \in GuestUuids, o \in OwnerUuids :
          create_event(verb, event_name, g, o)

GuestGallery ==
    /\ Idle
    /\ \E verb \in Verbs, code \in Codes : guest_gallery(verb, code)

OwnerDashboard ==
    /\ Idle
    /\ \E verb \in Verbs, code \in Codes : owner_dashboard(verb, code)

DownloadPhotosZip ==
    /\ Idle
    /\ \E verb \in Verbs, code \in Codes, body \in Bodies :
          \E fetch \in CallOutcomes(Targets(verb, code, body, TRUE), FetchOutcomes) :
              download_photos_zip(verb, code, body, fetch)

UploadPhoto ==
    /\ Idle
    /\ \E verb \in Verbs, code \in Codes, file \in Files, outcome \in S3Outcomes :
          upload_photo(verb, code, file, outcome)

DeletePhoto ==
    /\ Idle
    /\ \E verb \in Verbs, code \in Codes, photo_id \in PhotoIds, outcome \in S3Outcomes :
          delete_photo(verb, code, photo_id, outcome)

BulkDeletePhotos ==
    /\ Idle
    /\ \E verb \in Verbs, code \in Codes, body \in Bodies :
          \E outcomes \in CallOutcomes(Targets(verb, code, body, FALSE), S3Outcomes) :
              bulk_delete_photos(verb, code, body, outcomes)

ToggleUploads ==
    /\ Idle \/ JustToggled
    /\ \E verb \in Verbs, code \in Codes : toggle_uploads(verb, code)

\* The response is sent and the worker takes up the next request.
Deliver ==
    /\ ~Idle
    /\ last' = NoRequest
    /\ UNCHANGED <<dbvars, vfile, vresult, workers>>

Next ==
    \/ CreateEvent
    \/ GuestGallery
    \/ OwnerDashboard
    \/ DownloadPhotosZip
    \/ UploadPhoto
    \/ DeletePhoto
    \/ BulkDeletePhotos
    \/ ToggleUploads
    \/ Deliver

Spec == Init /\ [][Next]_vars

-----------------------------------------------------------------------------
(* validate_image_file on its own: every size, declared type and content *)

FileSizes == {0, 1, max_size - 1, max_size, max_size + 1, 2 * max_size}

ContentTypes ==
    {"image/jpeg", "image/png", "image/jpg", "application/octet-stream", ""}

Contents ==
    { <<>>, <<255, 216>>, JpegMagic, JpegMagic \o <<224, 0, 16>>,
      <<0>> \o JpegMagic, SubSeq(PngMagic, 1, 7), PngMagic, PngSample,
      SubSeq(PngMagic, 1, 7) \o <<11>>, <<71, 73, 70, 56>> }

ValidatorFiles ==
    { [name |-> <<"f">>, size |-> sz, content_type |-> ct, content |-> c] :
          sz \in FileSizes, ct \in ContentTypes, c \in Contents }

InitValidate ==
    /\ events = <<>>
    /\ photos = {}
    /\ blobs = {}
    /\ nextPhotoId = 1
    /\ last = NoRequest
    /\ vfile \in ValidatorFiles
    /\ vresult = None
    /\ workers = [w \in Workers |-> NoWork]

Validate ==
    /\ vresult = None
    /\ vresult' = validate_image_file(vfile)
    /\ UNCHANGED <<dbvars, last, vfile, workers>>

NextValidate == Validate

SpecValidate == InitValidate /\ [][NextValidate]_vars

-----------------------------------------------------------------------------
(* The views under a server with several workers.  Nothing in views.py     *)
(* locks a row or opens a transaction, so between two statements that      *)
(* reach the database or the bucket the other worker may run.  A step is   *)
(* one such statement with the local code before its successor.  The       *)
(* requests are POSTs to upload_photo, delete_photo and toggle_uploads.   *)

\* Mutant: the UPDATE computes the flag from the stored row
\* (uploads_enabled = NOT uploads_enabled) and not from the instance.
SavedEvent_FromStored(instance, row) ==
    [instance EXCEPT !.uploads_enabled = ~row.uploads_enabled]

\* event.save() of a loaded Event: an UPDATE that sets every column of the
\* row to the instance's value, whatever the row holds by then.
SavedEvent(instance, row) == instance

\* The Event instance a worker loaded, as far as a view changes it
Loaded(wk) == [events[wk.event] EXCEPT !.uploads_enabled = wk.read]

\* toggle_uploads: get_object_or_404(Event, owner_secret=owner_secret)
toggle_uploads_get(w, owner_secret) ==
    LET ev == TheOnly(EventsByOwnerSecret(owner_secret))
        req == [NoWork EXCEPT !.op = "toggle_uploads"]
    IN  /\ workers[w].pc = "idle"
        /\ workers' = [workers EXCEPT ![w] =
              IF ev = 0 THEN Answered(req, 404, None)
              ELSE [req EXCEPT !.pc = "toggle_save", !.event = ev,
                               !.read = events[ev].uploads_enabled]]
        /\ UNCHANGED <<dbvars, last, vfile, vresult>>

\* toggle_uploads: the negation on the instance, event.save(), the response
toggle_uploads_save(w) ==
    LET wk == workers[w]
        event == Toggled(Loaded(wk))
    IN  /\ wk.pc = "toggle_save"
        /\ events' = [events EXCEPT ![wk.event] = SavedEvent(event, events[wk.event])]
        /\ workers' = [workers EXCEPT ![w] =
              Answered(wk, 200, [success |-> TRUE,
                                 uploads_enabled |-> event.uploads_enabled])]
        /\ UNCHANGED <<photos, blobs, nextPhotoId, last, vfile, vresult>>

\* upload_photo: get_object_or_404(Event, guest_code=guest_code), the check
\* of the flag on the instance, of the file and of its content
upload_photo_get(w, guest_code, file) ==
    LET ev == TheOnly(EventsByGuestCode(guest_code))
        valid == validate_image_file(file)
        req == [NoWork EXCEPT !.op = "upload_photo", !.file = file]
        got == [req EXCEPT !.event = ev, !.read = events[ev].uploads_enabled]
    IN  /\ workers[w].pc = "idle"
        /\ workers' = [workers EXCEPT ![w] =
              IF ev = 0 THEN Answered(req, 404, None)
              ELSE IF UploadsDisabled(events[ev])
              THEN Answered(got, 403, [error |-> <<"Uploads disabled">>])
              ELSE IF file.name = <<>>
              THEN Answered(got, 400, [error |-> <<"No photo provided">>])
              ELSE IF ~valid[1]
              THEN Answered(got, 400, [error |-> valid[2]])
              ELSE [got EXCEPT !.pc = "upload_put"]]
        /\ UNCHANGED <<dbvars, last, vfile, vresult>>

\* upload_photo: s3_data = upload_photo_to_s3(photo_file, event.id)
upload_photo_put(w, outcome) ==
    LET wk == workers[w]
        s3_data == upload_photo_to_s3(wk.file, wk.event, nextPhotoId, outcome)
    IN  /\ wk.pc = "upload_put"
        /\ nextPhotoId <= MaxUploads
        /\ nextPhotoId' = nextPhotoId + 1
        /\ blobs' = BlobsAfterPut(blobs, s3_data.s3_key, outcome)
        /\ workers' = [workers EXCEPT ![w] =
              IF s3_data.raised
              THEN Answered(wk, 500, [error |-> s3_data.error])
              ELSE IF ~PutReturned(s3_data)
              THEN Answered(wk, 500, [error |-> <<"S3 upload returned no URL">>])
              ELSE [wk EXCEPT !.pc = "upload_create", !.uuid = nextPhotoId,
                              !.s3_data = s3_data]]
        /\ UNCHANGED <<events, photos, last, vfile, vresult>>

\* upload_photo: Photo.objects.create(event=event, ...) and the response
upload_photo_create(w) ==
    LET wk == workers[w]
        photo == [id |-> wk.uuid, event |-> wk.event, s3_key |-> wk.s3_data.s3_key,
                  s3_url |-> wk.s3_data.s3_url, original_filename |-> wk.file.name]
    IN  /\ wk.pc = "upload_create"
        /\ photos' = photos \cup {photo}
        /\ workers' = [workers EXCEPT ![w] =
              [Answered(wk, 200, [success |-> TRUE, photo_id |-> photo.id,
                                  photo_url |-> photo.s3_url])
                  EXCEPT !.stored = events[wk.event].uploads_enabled]]
        /\ UNCHANGED <<events, blobs, nextPhotoId, last, vfile, vresult>>

\* delete_photo: the two get_object_or_404
delete_photo_get(w, owner_secret, photo_id) ==
    LET ev == TheOnly(EventsByOwnerSecret(owner_secret))
        found == PhotosByIdInEvent(photo_id, ev)
        req == [NoWork EXCEPT !.op = "delete_photo"]
        got == [req EXCEPT !.event = ev, !.read = events[ev].uploads_enabled]
    IN  /\ workers[w].pc = "idle"
        /\ workers' = [workers EXCEPT ![w] =
              IF ev = 0 THEN Answered(req, 404, None)
              ELSE IF found = {} THEN Answered(got, 404, None)
              ELSE [got EXCEPT !.pc = "delete_s3",
                               !.photo = CHOOSE p \in found : TRUE]]
        /\ UNCHANGED <<dbvars, last, vfile, vresult>>

\* delete_photo: delete_photo_from_s3(photo.s3_key)
delete_photo_s3(w, outcome) ==
    LET wk == workers[w]
    IN  /\ wk.pc = "delete_s3"
        /\ blobs' = BlobsAfterDelete(blobs, wk.photo.s3_key, outcome)
        /\ workers' = [workers EXCEPT ![w] =
              IF DeleteRaises(outcome)
              THEN Answered(wk, 500, [error |-> <<outcome>>])
              ELSE [wk EXCEPT !.pc = "delete_row"]]
        /\ UNCHANGED <<events, photos, nextPhotoId, last, vfile, vresult>>

\* delete_photo: photo.delete() (DELETE ... WHERE id = photo.id) and the
\* response
delete_photo_row(w) ==
    LET wk == workers[w]
    IN  /\ wk.pc = "delete_row"
        /\ photos' = {p \in photos : p.id # wk.photo.id}
        /\ workers' = [workers EXCEPT ![w] = Answered(wk, 200, [success |-> TRUE])]
        /\ UNCHANGED <<events, blobs, nextPhotoId, last, vfile, vresult>>

\* Two events exist, as two create_event requests leave them.
InitConc ==
    /\ events = <<NewEvent(<<"P">>, Uuid(1), Uuid(1)),
                  NewEvent(<<"P">>, Uuid(20), Uuid(20))>>
    /\ photos = {}
    /\ blobs = {}
    /\ nextPhotoId = 1
    /\ last = NoRequest
    /\ vfile = NoFile
    /\ vresult = None
    /\ workers = [w \in Workers |-> NoWork]

\* <guest_code> / <owner_secret> of a request: a stored one or none
GuestCodes == {events[i].guest_code : i \in DOMAIN events} \cup {BogusCode}

OwnerSecrets == {events[i].owner_secret : i \in DOMAIN events} \cup {BogusCode}

\* <uuid:photo_id> of a delete: the keys of the rows that can exist and one more
PathPhotoIds == 1..(MaxUploads + 1)

ToggleGet ==
    \E w \in Workers, code \in OwnerSecrets : toggle_uploads_get(w, code)

ToggleSave == \E w \in Workers : toggle_uploads_save(w)

UploadGet ==
    \E w \in Workers, code \in GuestCodes, file \in Files :
        upload_photo_get(w, code, file)

UploadPut ==
    \E w \in Workers, outcome \in StoreOutcomes : upload_photo_put(w, outcome)

UploadCreate == \E w \in Workers : upload_photo_create(w)

DeleteGet ==
    \E w \in Workers, code \in OwnerSecrets, photo_id \in PathPhotoIds :
        delete_photo_get(w, code, photo_id)

DeleteS3 ==
    \E w \in Workers, outcome \in StoreOutcomes : delete_photo_s3(w, outcome)

DeleteRow == \E w \in Workers : delete_photo_row(w)

\* The response is sent and the worker is free for the next request.
Respond ==
    \E w \in Workers :
        /\ workers[w].pc = "done"
        /\ workers' = [workers EXCEPT ![w] = NoWork]
        /\ UNCHANGED <<dbvars, last, vfile, vresult>>

NextConc ==
    \/ ToggleGet
    \/ ToggleSave
    \/ UploadGet
    \/ UploadPut
    \/ UploadCreate
    \/ DeleteGet
    \/ DeleteS3
    \/ DeleteRow
    \/ Respond

SpecConc == InitConc /\ [][NextConc]_vars

-----------------------------------------------------------------------------
(* Properties *)

\* The step answers a request to the view `op`.
Answers(op) == last'.op = op /\ last' # last

\* C1: when upload_photo takes up a POST carrying the guest_code of an event
\* whose stored uploads_enabled is false, it answers 403, creates no Photo
\* and makes no call to the bucket, whatever file is or is not attached.
C1_DisabledUploadIs403 ==
    [][\A ev \in DOMAIN events :
          (/\ Answers("upload_photo")
           /\ last'.verb = "POST"
           /\ last'.code = events[ev].guest_code
           /\ ~events[ev].uploads_enabled)
          => (/\ last'.status = 403
              /\ last'.calls = <<>>
              /\ photos' = photos
              /\ blobs' = blobs)]_vars

\* C1 witness: an upload with a valid image attached was refused with 403.
C1_Witness ==
    /\ last.op = "upload_photo"
    /\ last.status = 403
    /\ last.event # 0
    /\ ~events[last.event].uploads_enabled
    /\ last.arg.name = <<"shot", "jpg">>
    /\ validate_image_file(last.arg)[1]

\* C2: a delete_photo or bulk_delete_photos POST carrying the owner_secret of
\* event A never removes the row or the blob of a photo P of another event B,
\* whether P's id is in the path or in photo_ids: the single delete answers
\* 404, the bulk delete answers 200 and makes no call for P.
C2_CrossEventIsolation ==
    [][\A p \in photos : \A a \in DOMAIN events :
          (/\ a # p.event
           /\ Answers("delete_photo") \/ Answers("bulk_delete_photos")
           /\ last'.verb = "POST"
           /\ last'.code = events[a].owner_secret)
          => (/\ p \in photos'
              /\ p.s3_key \in blobs => p.s3_key \in blobs'
              /\ \A i \in DOMAIN last'.calls : last'.calls[i][2] # p.s3_key
              /\ (last'.op = "delete_photo" /\ last'.arg = p.id)
                    => last'.status = 404
              /\ (/\ last'.op = "bulk_delete_photos"
                  /\ last'.arg.kind = "object"
                  /\ p.id \in Range(last'.arg.photo_ids))
                    => last'.status = 200)]_vars

\* C2 witness: a bulk delete under A's secret listed a photo of A and a photo
\* of B; it deleted A's and B's is still stored.
C2_Witness ==
    /\ last.op = "bulk_delete_photos"
    /\ last.status = 200
    /\ last.body.deleted = 1
    /\ \E p \in photos :
          /\ p.event # last.event
          /\ p.id \in Range(last.arg.photo_ids)
          /\ p.s3_key \in blobs

\* A delete request that reaches photo p of the event its owner_secret
\* resolves to: p's id is in the path, or in photo_ids.
DeleteReaches(req, p) ==
    /\ req.verb = "POST"
    /\ req.event = p.event
    /\ \/ req.op = "delete_photo" /\ req.arg = p.id
       \/ /\ req.op = "bulk_delete_photos"
          /\ req.arg.kind = "object"
          /\ p.id \in Range(req.arg.photo_ids)

\* C3: in delete_photo and bulk_delete_photos no failure of the bucket's
\* delete, of any kind, keeps the Photo row: when the owner_secret resolves
\* and the photo belongs to the event, the row is gone after the request and
\* the failure does not reach the caller (the answer is 200).
C3_StorageFailureNeverBlocksDelete ==
    [][\A p \in photos :
          (/\ Answers("delete_photo") \/ Answers("bulk_delete_photos")
           /\ DeleteReaches(last', p))
          => (p \notin photos' /\ last'.status = 200)]_vars

\* C4: bulk_delete_photos with a resolving owner_secret answers 400 and
\* changes no row and no blob when the body is not parseable JSON, is JSON
\* but no object, or has no or an empty photo_ids list.
C4_BadBulkBodyIs400 ==
    [][(/\ Answers("bulk_delete_photos")
        /\ last'.verb = "POST"
        /\ last'.event # 0
        /\ \/ last'.arg.kind \in {"bad_utf8", "bad_json", "non_object"}
           \/ last'.arg.photo_ids = <<>>)
       => (last'.status = 400 /\ photos' = photos /\ blobs' = blobs)]_vars

\* C5: a toggle_uploads POST with an event's owner_secret answers 200, stores
\* the negation of the uploads_enabled it found and reports it; when two such
\* toggles follow one another directly, uploads_enabled is back at the value
\* it had before the first.
C5_ToggleTwiceRestores ==
    /\ \A ev \in DOMAIN events :
          (/\ last.op = "toggle_uploads"
           /\ last.verb = "POST"
           /\ last.code = events[ev].owner_secret)
          => (/\ last.status = 200
              /\ last.event = ev
              /\ events[ev].uploads_enabled = ~last.before
              /\ last.body.uploads_enabled = ~last.before)
    /\ (/\ last.op = "toggle_uploads"
        /\ last.status = 200
        /\ last.prev.event = last.event)
       => events[last.event].uploads_enabled = last.prev.before

\* C5 witness: two toggles of one event followed one another, starting from
\* uploads disabled.
C5_Witness ==
    /\ last.op = "toggle_uploads"
    /\ last.status = 200
    /\ last.prev.event = last.event
    /\ last.prev.before = FALSE

GuestCodeViews == {"guest_gallery", "upload_photo"}

OwnerSecretViews ==
    {"owner_dashboard", "download_photos_zip", "delete_photo",
     "bulk_delete_photos", "toggle_uploads"}

\* the verb each view is meant for
DesignatedVerb(op) ==
    IF op \in {"guest_gallery", "owner_dashboard"} THEN "GET" ELSE "POST"

\* C6: on every view that takes a guest_code or an owner_secret, a request
\* with the designated verb whose code equals that credential of no stored
\* event is answered 404 and changes no Event, no Photo and no blob; an
\* event's guest_code given as owner_secret is such a code.
C6_UnknownCodeIs404 ==
    [][(/\ last' # last
        /\ last'.op \in GuestCodeViews \cup OwnerSecretViews
        /\ last'.verb = DesignatedVerb(last'.op)
        /\ last'.op \in GuestCodeViews
              => \A ev \in DOMAIN events : events[ev].guest_code # last'.code
        /\ last'.op \in OwnerSecretViews
              => \A ev \in DOMAIN events : events[ev].owner_secret # last'.code)
       => (last'.status = 404 /\ UNCHANGED dbvars)]_vars

\* C6 witness: a toggle carrying the guest_code of an event with uploads
\* enabled was answered 404.
C6_Witness ==
    /\ last.op = "toggle_uploads"
    /\ last.verb = "POST"
    /\ last.status = 404
    /\ \E ev \in DOMAIN events :
          events[ev].guest_code = last.code /\ events[ev].uploads_enabled

MutatingViews ==
    {"create_event", "upload_photo", "delete_photo", "bulk_delete_photos",
     "toggle_uploads", "download_photos_zip"}

\* C7: every mutating view answers a request whose verb is not POST with 405
\* and changes no Event, no Photo and no blob, whether or not the code in
\* the path resolves.
C7_WrongVerbIs405 ==
    [][(/\ last' # last
        /\ last'.op \in MutatingViews
        /\ last'.verb # "POST")
       => (last'.status = 405 /\ UNCHANGED dbvars)]_vars

\* C7 witness: a DELETE on toggle-uploads with a resolving owner_secret was
\* answered 405.
C7_Witness ==
    /\ last.op = "toggle_uploads"
    /\ last.verb = "DELETE"
    /\ last.status = 405
    /\ \E ev \in DOMAIN events : events[ev].owner_secret = last.code

\* C8: every stored Event has a non-empty guest_code and owner_secret, no two
\* Events share a guest_code or an owner_secret, and no guest_code equals any
\* owner_secret; so a creation that generates a stored value stores no
\* second Event with it.
C8_CodesPresentAndUnique ==
    \A i \in DOMAIN events :
        /\ events[i].guest_code # <<>>
        /\ events[i].owner_secret # <<>>
        /\ \A j \in DOMAIN events :
              /\ events[i].guest_code # events[j].owner_secret
              /\ i # j => /\ events[i].guest_code # events[j].guest_code
                          /\ events[i].owner_secret # events[j].owner_secret

\* C8 witness: two Events are stored and a creation was refused.
C8_Witness ==
    /\ Len(events) = 2
    /\ last.op = "create_event"
    /\ last.verb = "POST"
    /\ last.arg = <<" ", "P">>
    /\ last.status = 500

\* C9: upload_photo creates a Photo only after the put of the file returned
\* a key and a URL.  If the put fails the answer is 500 and no Photo is
\* created; if it succeeds exactly one Photo is created, for the event of
\* the guest_code, holding the returned key and URL, and the answer is 200
\* with that Photo's id and URL.
C9_PhotoOnlyAfterPut ==
    [][Answers("upload_photo")
       => /\ photos' # photos
             => (/\ Len(last'.calls) = 1
                 /\ last'.calls[1][1] = "put"
                 /\ last'.calls[1][3] = "ok"
                 /\ last'.calls[1][2] \in blobs')
          /\ (last'.calls # <<>> /\ last'.calls[1][3] # "ok")
             => (last'.status = 500 /\ photos' = photos)
          /\ (last'.calls # <<>> /\ last'.calls[1][3] = "ok")
             => \E p \in photos' :
                   /\ p \notin photos
                   /\ \A q \in photos : q.id # p.id
                   /\ photos' = photos \cup {p}
                   /\ p.event \in DOMAIN events
                   /\ events[p.event].guest_code = last'.code
                   /\ p.s3_key = last'.calls[1][2]
                   /\ p.s3_url = <<"https", last'.calls[1][2]>>
                   /\ last'.status = 200
                   /\ last'.body.photo_id = p.id
                   /\ last'.body.photo_url = p.s3_url]_vars

\* C9 witness: an upload to the second event was stored and answered 200
\* while an earlier photo exists.
C9_Witness ==
    /\ last.op = "upload_photo"
    /\ last.status = 200
    /\ last.event = 2
    /\ Cardinality(photos) = 2
    /\ \E p \in photos : p.id = last.body.photo_id /\ p.s3_key \in blobs

\* bytes begins with the signature sig
StartsWith(bytes, sig) ==
    /\ Len(bytes) >= Len(sig)
    /\ \A i \in 1..Len(sig) : bytes[i] = sig[i]

\* C10: validate_image_file rejects with a too-large message when the size
\* exceeds the maximum, whatever the type; otherwise it accepts a declared
\* type of the allow-list whatever the bytes; otherwise it accepts exactly
\* when the first bytes are FF D8 FF or the 8-byte PNG signature, and rejects
\* with "Invalid file type" when they are neither.
C10_ValidatorDecision ==
    vresult # None
    => IF vfile.size > 10 * 1024 * 1024
       THEN ~vresult[1] /\ vresult[2][1] = "File size exceeds"
       ELSE IF vfile.content_type \in {"image/jpeg", "image/png", "image/jpg"}
       THEN vresult = <<TRUE, None>>
       ELSE IF \/ StartsWith(vfile.content, <<255, 216, 255>>)
               \/ StartsWith(vfile.content, <<137, 80, 78, 71, 13, 10, 26, 10>>)
       THEN vresult = <<TRUE, None>>
       ELSE vresult = <<FALSE, <<"Invalid file type">>>>

\* C10 witness: a file of the largest allowed size, declared
\* application/octet-stream and beginning with the PNG signature, was accepted.
C10_Witness ==
    /\ vresult = <<TRUE, None>>
    /\ vfile.size = max_size
    /\ vfile.content_type = "application/octet-stream"
    /\ vfile.content = PngSample

\* C11: a bulk_delete_photos request answered 200 for the event E of its
\* owner_secret removes exactly the Photo rows of E whose ids are in
\* photo_ids, leaves every other row as it was, and reports as `deleted` the
\* number of rows it removed.
C11_BulkDeleteRemovesListed ==
    [][(Answers("bulk_delete_photos") /\ last'.status = 200) =>
          LET listed == {p \in photos : /\ p.event = last'.event
                                        /\ p.id \in Range(last'.arg.photo_ids)}
          IN  /\ photos' = photos \ listed
              /\ last'.body.deleted = Cardinality(photos \ photos')]_vars

\* Worker w saves the Event it toggled.
SavesToggle(w) == workers[w].pc = "toggle_save" /\ workers'[w].pc = "done"

\* C12: toggle_uploads loads the flag and stores its negation in two
\* statements.  The save of a toggle stores, and the toggle reports, the
\* negation of the flag that toggle loaded, whatever the row holds by then;
\* it changes no other event's row, and nothing but such a save changes a
\* row.  Every stored flag is a boolean.  When two toggles of one event that
\* loaded the same flag have both been answered, the stored flag is the
\* negation of what they loaded: flipped once, not twice.
C12_ToggleLastWriterWins ==
    [][/\ \A w \in Workers :
              SavesToggle(w) =>
                  LET ev == workers[w].event
                  IN  /\ events'[ev].uploads_enabled = ~workers[w].read
                      /\ workers'[w].status = 200
                      /\ workers'[w].body.uploads_enabled = ~workers[w].read
                      /\ \A i \in DOMAIN events : i # ev => events'[i] = events[i]
       /\ events' # events => \E w \in Workers : SavesToggle(w)
       /\ DOMAIN events' = DOMAIN events
       /\ \A i \in DOMAIN events : events'[i].uploads_enabled \in BOOLEAN
       /\ \A w1, w2 \in Workers :
              (/\ w1 # w2
               /\ workers'[w1].op = "toggle_uploads" /\ workers'[w1].status = 200
               /\ workers'[w2].op = "toggle_uploads" /\ workers'[w2].status = 200
               /\ workers'[w1].event = workers'[w2].event
               /\ workers'[w1].read = workers'[w2].read)
                  => events'[workers'[w1].event].uploads_enabled = ~workers'[w1].read]_vars

\* C12 witness: both workers toggled the first event, both loaded
\* uploads_enabled = true and reported false, and false is stored; the other
\* event still accepts uploads.
C12_Witness ==
    /\ \A w \in Workers :
          /\ workers[w].op = "toggle_uploads"
          /\ workers[w].status = 200
          /\ workers[w].event = 1
          /\ workers[w].read
          /\ ~workers[w].body.uploads_enabled
    /\ ~events[1].uploads_enabled
    /\ events[2].uploads_enabled

\* Worker w creates the Photo row of its upload.
CreatesPhoto(w) == workers[w].pc = "upload_create" /\ workers'[w].pc = "done"

\* C13 as claimed: in every interleaving of uploads and toggles a Photo row
\* is added to an event only while the uploads_enabled stored for that event
\* is true.
C13_PhotoOnlyWhileEnabled ==
    [][\A p \in photos' \ photos : events[p.event].uploads_enabled]_vars

\* C13: every Photo row is created by an upload_photo request to the row's
\* event that loaded uploads_enabled = true when it checked the flag at its
\* start, and that request is answered 200; the flag stored at the moment of
\* the creation may be false already.
C13_PhotoOnlyAfterEnabledRead ==
    [][\A p \in photos' \ photos :
          \E w \in Workers :
              /\ CreatesPhoto(w)
              /\ workers[w].op = "upload_photo"
              /\ workers[w].event = p.event
              /\ workers[w].read
              /\ workers'[w].status = 200
              /\ workers'[w].body.photo_id = p.id]_vars

\* C13 witness: an upload that loaded uploads_enabled = true created its
\* Photo row when false was stored for its event, after the other worker's
\* toggle of that event.
C13_Witness ==
    \E w, t \in Workers :
        /\ workers[w].op = "upload_photo"
        /\ workers[w].status = 200
        /\ workers[w].read
        /\ ~workers[w].stored
        /\ \E p \in photos : p.id = workers[w].uuid /\ p.event = workers[w].event
        /\ workers[t].op = "toggle_uploads"
        /\ workers[t].status = 200
        /\ workers[t].event = workers[w].event

\* No worker is answering a request.
NoneInFlight == \A w \in Workers : workers[w].pc = "idle"

\* C14: whenever no request is in flight, the bucket holds an object under
\* the s3_key of every Photo row.
C14_RecordHasBlob ==
    NoneInFlight => \A p \in photos : p.s3_key \in blobs

====
